---- MODULE Spec2Model ----
(***************************************************************************)
(* State-machine model of the resumable crawl / checkpoint engine of       *)
(* inaturalist-photo-scraper (src/inaturalist/scraper.py, class            *)
(* InaturalistPhotoScraper).                                               *)
(*                                                                         *)
(* One process executes run() sequentially; the observation API and the    *)
(* object store are the environment.  Every request outcome is drawn       *)
(* nondeterministically.  Persisted objects (the checkpoint record, the    *)
(* failure logs) survive from one run to the next; the engine's fields are *)
(* rebuilt by every run.                                                   *)
(*                                                                         *)
(* Python None is modelled by NoYear (0, falsy like None in the code's     *)
(* truth tests) for years and by NoPage (-1, equal to no page) for the     *)
(* stop page.  JSON object keys are str(int); str is injective, so a key   *)
(* is modelled by the integer it prints.  Years are scaled down to         *)
(* 1..MaxYear; page numbers start at 0.  A page number can equal a year    *)
(* number in the model as it can in the program, where a range of more     *)
(* than 2008 pages has a page whose key is the key of the year 2008.       *)
(***************************************************************************)
EXTENDS Integers, Sequences, FiniteSets, TLC

----------------------------------------------------------------------------
(* Bounds of the model *)

MaxYear == 3
MaxResumePage == 2
MaxResumeIndex == 1
MaxRuns == 1
MaxStopPage == 1
MaxCkptRuns == 3
MaxStoreRuns == 1
MaxResumeRuns == 2

(* Program constants *)

LargeResultsThreshold == 10000
NoYear == 0
NoPage == -1

Years == 1..MaxYear

(* The total_results values the count query may report. *)
SmallTotals == {0, 200, 450}
LargeTotals == {25000}

(* The UUID listings the API may return for a page. *)
Listings == {<<>>, <<1, 2>>, <<3>>}

(* Outcome of one HTTP request: a decoded answer, an error _get_request    *)
(* catches (HTTPError, JSONDecodeError), or any other requests exception   *)
(* (ConnectionError, Timeout), which it does not catch.                    *)
Responses == {"ok", "http_error", "conn_error"}

----------------------------------------------------------------------------
(* Pure helpers *)

Min(a, b) == IF a < b THEN a ELSE b

(* range(n)[k:] for k >= 0 is range(min(k, n), n): its first element. *)
RangeFrom(n, k) == Min(k, n)

(* seq[k:] for a 0-based index k >= 0 *)
SliceFrom(seq, k) == SubSeq(seq, Min(k, Len(seq)) + 1, Len(seq))

(* get_num_pages: (number of pages, number of observations) *)
get_num_pages(total_results, results_per_page) ==
    <<(total_results \div results_per_page) + 1, total_results>>

----------------------------------------------------------------------------
(* Python values held in JSON documents and lists *)

NoDict == [p \in {} |-> "pending"]
Str(s) == [tag |-> "str", s |-> s, d |-> NoDict]
Dict(d) == [tag |-> "dict", s |-> "", d |-> d]

(* dict with key k set to v *)
Put(f, k, v) == [x \in (DOMAIN f) \cup {k} |-> IF x = k THEN v ELSE f[x]]

(* Entries of the two failure lists *)
Url(what, a, b) == [kind |-> "url", what |-> what, a |-> a, b |-> b]
Uuid(u) == [kind |-> "uuid", what |-> "", a |-> u, b |-> 0]
FailedPage(p) == [kind |-> "failed page", what |-> "", a |-> p, b |-> 0]

(* Python ==, which is False between a str and a list *)
PyStr(u) == [tag |-> "str", v |-> <<u>>]
PyList(l) == [tag |-> "list", v |-> l]
PyEq(x, y) == x.tag = y.tag /\ x.v = y.v

(* x in lst *)
PyIn(x, lst) == \E k \in 1..Len(lst) : PyEq(lst[k], x)

(* lst += uuids: list.__iadd__ extends lst with the elements of uuids *)
Extend(lst, uuids) == lst \o [k \in 1..Len(uuids) |-> PyStr(uuids[k])]

----------------------------------------------------------------------------
VARIABLES
    self,       \* the fields of the InaturalistPhotoScraper instance
    proc,       \* position of run() and its locals; environment of the process
    api,        \* what the observation API reports during the current run
    progress,   \* the object <taxon_id>_progress.json in the logs bucket
    logs,       \* failure logs put into the logs bucket
    store,      \* the content store: photos bucket or output directory
    runs,       \* number of runs started so far
    hist        \* history of the current run (for stating properties)

vars == <<self, proc, api, progress, logs, store, runs, hist>>

NoSelf ==
    [resume_from_page |-> 0, stop_at_page |-> NoPage,
     resume_from_uuid_index |-> 0, upload_to_s3 |-> FALSE,
     one_page_only |-> FALSE, results_per_page |-> 200,
     start_year |-> NoYear, end_year |-> NoYear,
     is_large_results |-> FALSE,
     uuids |-> <<>>, observations |-> <<>>, failed_observations |-> <<>>, failed_downloads |-> <<>>]

NoProc ==
    [pc |-> "idle", year |-> NoYear, page |-> 0, hi |-> 0,
     uuids |-> <<>>, n |-> 0, exit_code |-> 0, logs_bucket |-> FALSE]

NoStore == [k \in {} |-> 0]

NoApi == [total |-> 0, by_year |-> [y \in Years |-> 0]]

NoHist ==
    [cfg |-> NoSelf, total |-> -1, acquired |-> {}, begun |-> {},
     listed |-> {}, lists |-> {}, repeated |-> {}, downloads |-> {}, counted |-> {},
     probed |-> {}, processed |-> {}, skipped |-> {},
     flushed |-> {}, completed |-> {}, first_year |-> NoYear,
     stopped_by |-> "", interrupted |-> FALSE,
     fetches |-> {}, puts |-> {}, stored |-> {},
     count_failed |-> FALSE, reported |-> {}, resumable |-> {},
     created |-> {},
     progress0 |-> [exists |-> FALSE, obj |-> NoDict]]

Init ==
    /\ self = NoSelf
    /\ proc = NoProc
    /\ api = NoApi
    /\ progress = [exists |-> FALSE, obj |-> NoDict]
    /\ logs = {}
    /\ store = NoStore
    /\ runs = 0
    /\ hist = NoHist

----------------------------------------------------------------------------
(* Control flow of run() *)

(* The process ends: sys.exit, an uncaught exception, or run() returning. *)
Exited(p, code) == [p EXCEPT !.pc = "exited", !.exit_code = code]

(* for page in pages_range: the next iteration *)
NextPage(p) ==
    [p EXCEPT !.pc = "page_loop", !.page = p.page + 1, !.uuids = <<>>, !.n = 0]

(* `break` (run, lines 534-538 and 544-548): leaves the loop over the      *)
(* pages.  In year mode that loop is nested in the loop over the years,    *)
(* which goes on with the next year; in direct mode run() returns.         *)
Break(p, is_large_results) ==
    IF is_large_results
    THEN [p EXCEPT !.pc = "year_loop", !.year = p.year + 1,
                   !.uuids = <<>>, !.n = 0]
    ELSE Exited([p EXCEPT !.uuids = <<>>, !.n = 0], 0)

(* The process ending with status 0 although the count query failed *)
CountFailedQuietly(p) == Exited(p, 0)

(* get_num_pages, lines 173-174: sys.exit with a message, exit status 1 *)
CountFailed(p) == Exited(p, 1)

(* _get_request's except clause: the URL joins failed_observations *)
RequestFailed(s, url) ==
    [s EXCEPT !.failed_observations = Append(@, url)]

(* The threshold taken as reached by a total equal to it *)
IsLargeResultsInclusive(num_observations) ==
    num_observations >= LargeResultsThreshold

(* run(), line 511 *)
IsLargeResults(num_observations) == num_observations > LargeResultsThreshold

(* A process is started: __init__ from the command line, then run().       *)
StartRun(Inputs, max_runs) ==
    /\ proc.pc = "idle"
    /\ runs < max_runs
    /\ \E in \in Inputs :
       LET c == in[1]
           w == in[2]
       IN /\ self' = [NoSelf EXCEPT
                        !.resume_from_page = c.resume_from_page,
                        !.stop_at_page = c.stop_at_page,
                        !.resume_from_uuid_index = c.resume_from_uuid_index,
                        !.upload_to_s3 = c.upload_to_s3,
                        !.one_page_only = c.one_page_only,
                        !.results_per_page = c.results_per_page,
                        !.start_year = c.start_year,
                        !.end_year = c.end_year]
          /\ proc' = [NoProc EXCEPT !.pc = "run", !.logs_bucket = c.logs_bucket]
          /\ api' = w
          /\ hist' = [NoHist EXCEPT !.cfg = self',
                                   !.progress0 = progress,
                                   !.resumable = hist.resumable]
    /\ runs' = runs + 1
    /\ UNCHANGED <<progress, logs, store>>

(* The process is gone: nothing of it is left but what it persisted.       *)
ProcessEnds ==
    /\ proc.pc = "exited"
    /\ self' = NoSelf
    /\ proc' = NoProc
    /\ api' = NoApi
    /\ hist' = NoHist
    /\ UNCHANGED <<progress, logs, store, runs>>

(* The same, keeping for the next run where an interrupt has stopped       *)
(* this one: the page and the index of the observation whose download was  *)
(* in flight.                                                              *)
ProcessEndsResumable ==
    /\ proc.pc = "exited"
    /\ self' = NoSelf
    /\ proc' = NoProc
    /\ api' = NoApi
    /\ hist' = [NoHist EXCEPT !.resumable =
                  IF hist.interrupted /\ proc.uuids # <<>>
                  THEN {[year |-> IF self.is_large_results
                                  THEN proc.year ELSE NoYear,
                         page |-> proc.page, index |-> proc.n]}
                  ELSE {}]
    /\ UNCHANGED <<progress, logs, store, runs>>

(* run(), lines 505-530 and 541: the first count query and the choice      *)
(* between direct paging and year partitioning.                            *)
Run(Answers) ==
    /\ proc.pc = "run"
    /\ \E r \in Answers :
          \/ /\ r = "http_error"      \* get_num_pages: sys.exit(message)
             /\ self' = RequestFailed(self, Url("count", NoYear, 0))
             /\ proc' = CountFailed(proc)
             /\ hist' = [hist EXCEPT !.count_failed = TRUE]
          \/ /\ r = "conn_error"
             /\ proc' = Exited(proc, 1)
             /\ hist' = [hist EXCEPT !.count_failed = TRUE]
             /\ self' = self
          \/ /\ r = "ok"
             /\ LET np == get_num_pages(api.total, self.results_per_page)
                    num_pages == np[1]
                    num_observations == np[2]
                IN  IF IsLargeResults(num_observations)
                       THEN \E sy \in (IF self.start_year = NoYear
                                       THEN Years ELSE {self.start_year}),
                               ey \in (IF self.end_year = NoYear
                                       THEN Years ELSE {self.end_year}) :
                               /\ self' = [self EXCEPT
                                             !.is_large_results = TRUE,
                                             !.start_year = sy,
                                             !.end_year = ey]
                               /\ proc' = [proc EXCEPT !.pc = "year_loop",
                                                       !.year = sy]
                               /\ hist' = [hist EXCEPT
                                     !.total = num_observations,
                                     !.first_year = sy]
                       ELSE /\ self' = self
                            /\ proc' = [proc EXCEPT
                                  !.pc = "page_loop",
                                  !.page = RangeFrom(num_pages,
                                                     self.resume_from_page),
                                  !.hi = num_pages]
                            /\ hist' = [hist EXCEPT
                                  !.total = num_observations]
    /\ UNCHANGED <<api, progress, logs, store, runs>>

(* run(), lines 513-516: _get_date fails (lines 421-428: the response is   *)
(* None and is subscripted), an uncaught TypeError.                        *)
GetDateFails ==
    /\ proc.pc = "run"
    /\ IsLargeResults(api.total)
    /\ self.start_year = NoYear \/ self.end_year = NoYear
    /\ self' = [RequestFailed(self, Url("date", NoYear, 0)) EXCEPT
                  !.is_large_results = TRUE]
    /\ proc' = Exited(proc, 1)
    /\ hist' = [hist EXCEPT !.total = api.total]
    /\ UNCHANGED <<api, progress, logs, store, runs>>

(* run(), lines 522-530: one iteration of the loop over the years *)
YearLoop(Answers) ==
    /\ proc.pc = "year_loop"
    /\ \/ /\ proc.year > self.end_year      \* the range is exhausted
          /\ proc' = Exited(proc, 0)
          /\ UNCHANGED <<self, hist>>
       \/ /\ proc.year = self.end_year      \* lines 523-524
          /\ proc' = Exited(proc, 0)
          /\ UNCHANGED <<self, hist>>
       \/ /\ proc.year < self.end_year
          /\ \E r \in Answers :
                \/ /\ r = "http_error"
                   /\ self' = RequestFailed(self, Url("count", proc.year, 0))
                   /\ proc' = CountFailed(proc)
                   /\ hist' = [hist EXCEPT !.count_failed = TRUE]
                \/ /\ r = "conn_error"
                   /\ proc' = Exited(proc, 1)
                   /\ hist' = [hist EXCEPT !.count_failed = TRUE]
                   /\ self' = self
                \/ /\ r = "ok"
                   /\ LET np == get_num_pages(api.by_year[proc.year],
                                              self.results_per_page)
                      IN  proc' = [proc EXCEPT
                                     !.pc = "page_loop",
                                     !.page = RangeFrom(np[1],
                                                  self.resume_from_page),
                                     !.hi = np[1]]
                   /\ hist' = [hist EXCEPT !.counted = @ \cup {proc.year}]
                   /\ self' = self
    /\ UNCHANGED <<api, progress, logs, store, runs>>

----------------------------------------------------------------------------
(* The checkpoint record: check_progress and _write_progress_file *)

(* The cursor of the current call of _parse, as the history records it *)
Cursor == <<IF self.is_large_results THEN proc.year ELSE NoYear, proc.page>>

(* check_progress, line 336: the key of the year, None in direct mode *)
YearKey(s) == IF s.is_large_results THEN s.start_year ELSE NoYear

(* check_progress, lines 365-368: progress[year][page] or progress[page].  *)
(* A missing key raises KeyError; subscripting a str with a str raises     *)
(* TypeError.  Otherwise the value read.                                   *)
ReadStatus(obj, year, page) ==
    IF year # NoYear
    THEN IF year \notin DOMAIN obj THEN "KeyError"
         ELSE IF obj[year].tag = "str" THEN "TypeError"
         ELSE IF page \notin DOMAIN obj[year].d THEN "KeyError"
         ELSE obj[year].d[page]
    ELSE IF page \notin DOMAIN obj THEN "KeyError"
         ELSE IF obj[page].tag = "str" THEN obj[page].s
         ELSE "dict"

(* check_progress, lines 376-378: the entry written by begin *)
BeginWrite(obj, year, page) == Put(obj, page, Str("in-progress"))

(* check_progress, lines 342-345: the entry written by complete; the       *)
(* assignment progress[year][page] = ... raises when progress[year] is     *)
(* missing or is a str.                                                    *)
CompleteRaises(obj, year, page) ==
    year # NoYear /\ (year \notin DOMAIN obj \/ obj[year].tag = "str")

CompleteWrite(obj, year, page) ==
    IF year # NoYear
    THEN Put(obj, year, Dict(Put(obj[year].d, page, "complete")))
    ELSE Put(obj, page, Str("complete"))

(* The pages of a direct record without the last one *)
DirectPagesShort(num_pages) == 0..(num_pages - 2)

(* _write_progress_file, lines 299-313: the record written the first time *)
YearPages(num_pages) == 0..num_pages
DirectPages(num_pages) == 0..(num_pages - 1)

NewProgress(s, a, by_year) ==
    IF by_year
    THEN [y \in s.start_year..s.end_year |->
            Dict([k \in YearPages(get_num_pages(a.by_year[y],
                                    s.results_per_page)[1]) |-> "pending"])]
    ELSE [k \in DirectPages(get_num_pages(a.total, s.results_per_page)[1])
            |-> Str("pending")]

(* run(), lines 532-533 and 542-543, and _parse, lines 445-455: the loop   *)
(* over the pages takes its next page and _parse starts on it.             *)
PageLoop ==
    /\ proc.pc = "page_loop"
    /\ \/ /\ proc.page >= proc.hi                 \* pages_range is exhausted
          /\ proc' = Break(proc, self.is_large_results)
          /\ UNCHANGED <<self, hist>>
       \/ /\ proc.page < proc.hi
          /\ proc.page = self.stop_at_page        \* return 2
          /\ proc' = Break(proc, self.is_large_results)
          /\ hist' = [hist EXCEPT !.stopped_by = "stop_page"]
          /\ self' = self
       \/ /\ proc.page < proc.hi
          /\ proc.page # self.stop_at_page
          /\ self' = [self EXCEPT
                        !.start_year = IF self.is_large_results
                                       THEN proc.year ELSE NoYear,
                        !.resume_from_page = proc.page]
          /\ proc' = [proc EXCEPT
                        !.pc = IF proc.logs_bucket THEN "begin" ELSE "list"]
          /\ hist' = [hist EXCEPT !.acquired = @ \cup {Cursor}]
    /\ UNCHANGED <<api, progress, logs, store, runs>>

(* check_progress, lines 351-359, with self.s3 None (upload_to_s3 unset):  *)
(* AttributeError                                                          *)
NoS3Client ==
    /\ proc.pc = "begin"
    /\ ~self.upload_to_s3
    /\ proc' = Exited(proc, 1)
    /\ UNCHANGED <<self, api, progress, logs, store, runs, hist>>

(* _write_progress_file, lines 303-305: the years whose count is queried *)
ProbedYears(s) ==
    IF YearKey(s) # NoYear THEN s.start_year..s.end_year ELSE {}

(* check_progress, lines 351-359: no progress object yet.                  *)
(* _write_progress_file asks get_num_pages for every page count.           *)
WriteProgressFile(Answers) ==
    /\ proc.pc = "begin"
    /\ self.upload_to_s3
    /\ ~progress.exists
    /\ \E r \in Answers :
          \/ /\ r = "http_error"
             /\ self' = RequestFailed(self, Url("count", YearKey(self), 0))
             /\ proc' = CountFailed(proc)
             /\ progress' = progress
             /\ hist' = [hist EXCEPT !.probed = @ \cup ProbedYears(self),
                                     !.count_failed = TRUE]
          \/ /\ r = "conn_error"
             /\ proc' = Exited(proc, 1)
             /\ UNCHANGED <<self, progress>>
             /\ hist' = [hist EXCEPT !.probed = @ \cup ProbedYears(self),
                                     !.count_failed = TRUE]
          \/ /\ r = "ok"
             /\ progress' = [exists |-> TRUE,
                             obj |-> NewProgress(self, api,
                                                 YearKey(self) # NoYear)]
             /\ UNCHANGED <<self, proc>>
             /\ hist' = [hist EXCEPT !.probed = @ \cup ProbedYears(self),
                                     !.created = @ \cup {progress'.obj}]
    /\ UNCHANGED <<api, logs, store, runs>>

(* check_progress(page), lines 361-382: begin *)
CheckProgress ==
    /\ proc.pc = "begin"
    /\ self.upload_to_s3
    /\ progress.exists
    /\ LET status == ReadStatus(progress.obj, YearKey(self), proc.page)
       IN  \/ /\ status \in {"KeyError", "TypeError"}
              /\ proc' = Exited(proc, 1)
              /\ UNCHANGED <<progress, hist>>
           \/ /\ status \in {"complete", "in-progress"}     \* return 1
              /\ proc' = IF self.one_page_only
                         THEN Break(proc, self.is_large_results)
                         ELSE NextPage(proc)
              /\ hist' = [hist EXCEPT
                    !.skipped = @ \cup {Cursor},
                    !.stopped_by = IF self.one_page_only THEN "skip" ELSE @]
              /\ progress' = progress
           \/ /\ status \notin {"KeyError", "TypeError",
                                "complete", "in-progress"}
              /\ progress' = [progress EXCEPT
                    !.obj = BeginWrite(@, YearKey(self), proc.page)]
              /\ proc' = [proc EXCEPT !.pc = "list"]
              /\ hist' = [hist EXCEPT !.begun = @ \cup {Cursor}]
    /\ UNCHANGED <<self, api, logs, store, runs>>

----------------------------------------------------------------------------
(* The content store: download_photos *)

(* Path(photo_url).suffix.lower() *)
Lower(suffix) ==
    CASE suffix = ".JPEG" -> ".jpeg"
      [] suffix = ".JPG" -> ".jpg"
      [] suffix = ".PNG" -> ".png"
      [] OTHER -> suffix

(* download_photos, lines 261-263 *)
Normalize(suffix) ==
    IF Lower(suffix) = "" \/ Lower(suffix) = ".jpeg" THEN ".jpg"
    ELSE Lower(suffix)

(* Stored contents: the bytes of a photo, or an encoded JSON document *)
Bytes(b) == [tag |-> "bytes", v |-> <<b>>]
Json(doc) == [tag |-> "json", v |-> doc]
SameContent(c1, c2) == c1.tag = c2.tag /\ c1.v = c2.v

(* json.dumps(self.data).encode() *)
DataJson(s) ==
    Json(<<s.uuids, s.observations, s.failed_observations,
           s.failed_downloads>>)

(* hashlib.md5(content).hexdigest(), taken as collision free: two digests  *)
(* are equal exactly when the contents are.                                *)
Md5(content) == [digest_of |-> content]
SameDigest(d1, d2) == SameContent(d1.digest_of, d2.digest_of)

(* The name with the photo's identifier in it *)
FnameWithId(photo) ==
    [stem |-> Md5(Bytes(photo.bytes)),
     suffix |-> Normalize(photo.suffix), id |-> photo.id]

(* The object name: digest of the photo's bytes plus normalized suffix *)
Fname(photo) == [stem |-> Md5(Bytes(photo.bytes)),
                 suffix |-> Normalize(photo.suffix)]

(* download_photos, line 290: the file of that name in the output          *)
(* directory, which is not the bucket                                      *)
LocalPath(fname) == [dir |-> "output_dir", name |-> fname]

(* download_photos, lines 273-282: the object exists and its ETag (the     *)
(* digest of the stored content) equals the stem of the name.              *)
AlreadyInBucket(st, fname) ==
    /\ fname \in DOMAIN st
    /\ SameDigest(fname.stem, Md5(st[fname]))

(* The URL of a photo, as the failure lists hold it *)
PhotoUrl(photo) == Url("photo", photo.id, 0)

(* download_photos, line 288: the photo dict appended after a failed put *)
PhotoDict(photo) == [kind |-> "photo", what |-> "", a |-> photo.id, b |-> 0]

(* Outcome of the requests and calls made for one photo: the bytes are     *)
(* stored; _get_request returns None; requests.get raises an exception     *)
(* _get_request does not catch; put_object raises InvalidResponseError     *)
(* (caught, line 287); put_object raises S3Error (not caught).             *)
PhotoOutcomesAll == {"ok", "http_error", "conn_error", "put_error", "s3_error"}

(* What download_photos has done so far: the engine's fields, the store,   *)
(* whether an uncaught exception ended the process, and, for stating       *)
(* properties, the positions of the photos requested, the puts issued      *)
(* (with whether the key was in the store), the photos stored and the      *)
(* positions of the photos found in the bucket already.                    *)
Outcome(s, st) ==
    [self |-> s, store |-> st, raised |-> FALSE,
     tried |-> {}, puts |-> {}, stored |-> {}, present |-> {}]

(* download_photos, lines 256-293: the loop over the photos of one         *)
(* observation, from position k on.  outs gives the outcome of each        *)
(* photo's requests.                                                       *)
RECURSIVE StoreFrom(_, _, _, _)
StoreFrom(acc, photos, outs, k) ==
    IF k > Len(photos) THEN acc
    ELSE LET photo == photos[k]
             out == outs[k]
             fname == Fname(photo)
             s == acc.self
             st == acc.store
             got == [acc EXCEPT !.tried = @ \cup {k}]
         IN  CASE out = "http_error" ->
                    StoreFrom(
                      [got EXCEPT !.self =
                         [RequestFailed(s, PhotoUrl(photo)) EXCEPT
                            !.failed_downloads = Append(@, PhotoUrl(photo))]],
                      photos, outs, k + 1)
               [] out = "conn_error" ->
                    [got EXCEPT !.raised = TRUE]
               [] OTHER ->
                    IF s.upload_to_s3
                    THEN IF AlreadyInBucket(st, fname)
                         THEN [got EXCEPT !.present = @ \cup {k}]
                                                           \* return True
                         ELSE LET put == [got EXCEPT !.puts = @ \cup
                                            {[key |-> fname,
                                              present |-> fname \in DOMAIN st]}]
                              IN  CASE out = "put_error" ->
                                         StoreFrom(
                                           [put EXCEPT !.self.failed_downloads =
                                              Append(@, PhotoDict(photo))],
                                           photos, outs, k + 1)
                                    [] out = "s3_error" ->
                                         [put EXCEPT !.raised = TRUE]
                                    [] OTHER ->
                                         StoreFrom(
                                           [put EXCEPT
                                              !.store = Put(st, fname, DataJson(s)),
                                              !.stored = @ \cup
                                                 {[photo |-> photo, key |-> fname]}],
                                           photos, outs, k + 1)
                    ELSE StoreFrom(
                           [got EXCEPT
                              !.store = Put(st, LocalPath(fname),
                                            Bytes(photo.bytes)),
                              !.stored = @ \cup
                                 {[photo |-> photo, key |-> LocalPath(fname)]}],
                           photos, outs, k + 1)

StorePhotos(s, st, photos, outs) == StoreFrom(Outcome(s, st), photos, outs, 1)

(* download_photos, lines 245-254 and the loop: r is the outcome of the    *)
(* observation request, obs the observation_photos of the answer.          *)
download_photos(s, st, uuid, r, obs, outs) ==
    CASE r = "http_error" ->
           [Outcome(s, st) EXCEPT !.self =
              [RequestFailed(s, Url("obs", uuid, 0)) EXCEPT
                 !.failed_observations = Append(@, Uuid(uuid))]]
      [] r = "conn_error" ->
           [Outcome(s, st) EXCEPT !.raised = TRUE]
      [] OTHER ->
           StorePhotos([s EXCEPT !.observations =
                           Append(@, [uuid |-> uuid, photos |-> obs])],
                       st, obs, outs)

----------------------------------------------------------------------------
(* _parse: listing, downloads, completion *)

(* _parse, lines 489-493: after the loop over the UUIDs *)
AfterUuids(p, s) ==
    IF s.one_page_only THEN Break(p, s.is_large_results)
    ELSE IF p.logs_bucket THEN [p EXCEPT !.pc = "dump_logs",
                                         !.uuids = <<>>, !.n = 0]
    ELSE NextPage(p)

(* _parse, lines 477-480: the duplicate-page guard *)
DuplicateResponse(uuids, seen) == PyIn(PyList(uuids), seen)

(* The whole listing, whatever the index to resume from *)
UuidsFromStart(uuids, resume_from_uuid_index) == uuids

(* _parse, line 482: the UUIDs left to download *)
UuidsToDownload(uuids, resume_from_uuid_index) ==
    SliceFrom(uuids, resume_from_uuid_index)

(* _parse, lines 461-482: the listing of the page *)
GetObservations(Answers, Pages) ==
    /\ proc.pc = "list"
    /\ \E r \in Answers :
          \/ /\ r = "http_error"          \* get_observations returns None
             /\ self' = RequestFailed(self,
                           Url("listing", proc.page, Cursor[1]))
             /\ proc' = NextPage(proc)
             /\ hist' = [hist EXCEPT !.listed = @ \cup {Cursor}]
          \/ /\ r = "conn_error"
             /\ proc' = Exited(proc, 1)
             /\ self' = self
             /\ hist' = [hist EXCEPT !.listed = @ \cup {Cursor}]
          \/ /\ r = "ok"
             /\ \E uuids \in Pages :
                   /\ hist' = [hist EXCEPT
                         !.listed = @ \cup {Cursor},
                         !.lists = @ \cup {[cursor |-> Cursor,
                                            uuids |-> uuids]},
                         !.repeated = @ \cup
                            {c \in {Cursor} :
                               \E l \in hist.lists : l.uuids = uuids},
                         !.processed = @ \cup
                            {c \in {Cursor} :
                               /\ uuids # <<>>
                               /\ ~DuplicateResponse(uuids, self.uuids)
                               /\ UuidsToDownload(uuids,
                                     self.resume_from_uuid_index) = <<>>},
                         !.stopped_by =
                            IF /\ self.one_page_only
                               /\ \/ uuids = <<>>
                                  \/ ~DuplicateResponse(uuids, self.uuids)
                                     /\ UuidsToDownload(uuids,
                                          self.resume_from_uuid_index) = <<>>
                            THEN (IF uuids = <<>> THEN "empty" ELSE "done")
                            ELSE @]
                   /\ IF uuids = <<>>
                      THEN /\ self' = [self EXCEPT !.failed_observations =
                                         Append(@, FailedPage(proc.page))]
                           /\ proc' = IF self.one_page_only
                                      THEN Break(proc, self.is_large_results)
                                      ELSE NextPage(proc)
                      ELSE IF DuplicateResponse(uuids, self.uuids)
                      THEN /\ self' = self
                           /\ proc' = NextPage(proc)
                      ELSE LET todo == UuidsToDownload(uuids,
                                          self.resume_from_uuid_index)
                           IN  /\ self' = [self EXCEPT
                                     !.uuids = Extend(@, uuids)]
                               /\ proc' =
                                    IF todo = <<>>
                                    THEN AfterUuids(proc, self)
                                    ELSE [proc EXCEPT
                                            !.pc = "download",
                                            !.uuids = todo,
                                            !.n = self.resume_from_uuid_index]
    /\ UNCHANGED <<api, progress, logs, store, runs>>

(* _parse, lines 484-487: one iteration of the loop over the UUIDs: the    *)
(* call of download_photos for the UUID whose index line 485 has stored,   *)
(* then, if a UUID is left, line 485 for the next one.  While the process  *)
(* is at "download", download_photos is in flight for index proc.n.        *)
Download(Answers, Observations, PhotoOutcomes) ==
    /\ proc.pc = "download"
    /\ \E r \in Answers, obs \in Observations :
       \E outs \in [1..Len(obs) -> PhotoOutcomes] :
          LET res == download_photos(
                        [self EXCEPT !.resume_from_uuid_index = proc.n],
                        store, Head(proc.uuids), r, obs, outs)
              rest == [proc EXCEPT !.uuids = Tail(@), !.n = @ + 1]
          IN  /\ r # "ok" => obs = <<>>
              /\ self' = [res.self EXCEPT !.resume_from_uuid_index =
                            IF ~res.raised /\ rest.uuids # <<>>
                            THEN rest.n ELSE proc.n]
              /\ store' = res.store
              /\ proc' = IF res.raised THEN Exited(proc, 1)
                         ELSE IF rest.uuids = <<>>
                         THEN AfterUuids(rest, res.self)
                         ELSE rest
              /\ hist' = [hist EXCEPT
                    !.downloads = @ \cup
                       {[cursor |-> Cursor, n |-> proc.n,
                         uuid |-> Head(proc.uuids)]},
                    !.fetches = @ \cup
                       {[cursor |-> Cursor, n |-> proc.n,
                         uuid |-> Head(proc.uuids), r |-> r,
                         photos |-> obs, outs |-> outs,
                         tried |-> res.tried, raised |-> res.raised,
                         present |-> res.present]},
                    !.puts = @ \cup res.puts,
                    !.stored = @ \cup
                       {[uuid |-> Head(proc.uuids), photo |-> e.photo,
                         key |-> e.key] : e \in res.stored},
                    !.processed = @ \cup
                       {c \in {Cursor} : ~res.raised /\ rest.uuids = <<>>},
                    !.stopped_by =
                       IF self.one_page_only /\ ~res.raised
                          /\ rest.uuids = <<>>
                       THEN "done" ELSE @]
    /\ UNCHANGED <<api, progress, logs, runs>>

(* _dump_logs, lines 390-408: the failure lists are put in the logs bucket *)
LogsFname(s, n) ==
    IF s.one_page_only THEN [kind |-> "page", n |-> s.resume_from_page]
    ELSE [kind |-> "time", n |-> n]

DumpLogs ==
    /\ proc.pc = "dump_logs"
    /\ logs' = IF self.failed_observations # <<>>
                  \/ self.failed_downloads # <<>>
               THEN LET name == LogsFname(self, Cardinality(logs))
                    IN  {l \in logs : l.name # name} \cup
                        {[name |-> name,
                          failed_observations |-> self.failed_observations,
                          failed_downloads |-> self.failed_downloads]}
               ELSE logs
    /\ proc' = [proc EXCEPT !.pc = "complete"]
    /\ hist' = [hist EXCEPT !.flushed = @ \cup {Cursor}]
    /\ UNCHANGED <<self, api, progress, store, runs>>

(* _dump_logs, line 409: check_progress(page, mark_as_complete=True),      *)
(* lines 338-349                                                           *)
MarkComplete ==
    /\ proc.pc = "complete"
    /\ IF ~progress.exists
          \/ CompleteRaises(progress.obj, YearKey(self), proc.page)
       THEN /\ proc' = Exited(proc, 1)
            /\ UNCHANGED <<progress, hist>>
       ELSE /\ progress' = [progress EXCEPT
                  !.obj = CompleteWrite(@, YearKey(self), proc.page)]
            /\ proc' = NextPage(proc)
            /\ hist' = [hist EXCEPT !.completed = @ \cup {Cursor}]
    /\ UNCHANGED <<self, api, logs, store, runs>>

(* _keyboard_interrupt_handler, lines 93-110: SIGINT at any point of a run *)
(* The report with the index the run was started with *)
ReportWithoutIndex(s) ==
    [page |-> s.resume_from_page, index |-> 0,
     year |-> s.start_year,
     failed_observations |-> s.failed_observations,
     failed_downloads |-> s.failed_downloads]

(* _keyboard_interrupt_handler, lines 100-107: what the handler logs *)
Report(s) ==
    [page |-> s.resume_from_page, index |-> s.resume_from_uuid_index,
     year |-> s.start_year,
     failed_observations |-> s.failed_observations,
     failed_downloads |-> s.failed_downloads]

(* The positions of the standalone script, whose handler is its own *)
ScriptPcs == {"script_run", "script_page", "script_download"}

Interrupt ==
    /\ proc.pc \notin {"idle", "exited"} \cup ScriptPcs
    /\ proc' = Exited(proc, 1)
    /\ hist' = [hist EXCEPT !.interrupted = TRUE,
                            !.reported = {Report(self)}]
    /\ UNCHANGED <<self, api, progress, logs, store, runs>>

----------------------------------------------------------------------------
(* Inputs: command lines, and what the API reports during a run *)

YearTotals == {0, 200}

Config(pages, stops, indexes, s3, one_page, sizes, starts, ends, buckets) ==
    [resume_from_page : pages,
     stop_at_page : stops,
     resume_from_uuid_index : indexes,
     upload_to_s3 : s3,
     one_page_only : one_page,
     results_per_page : sizes,
     start_year : starts,
     end_year : ends,
     logs_bucket : buckets]

(* The API's counts during a run.  The per-year counts are read only by   *)
(* year partitioning.                                                      *)
DirectWorlds == [total : SmallTotals, by_year : {[y \in Years |-> 0]}]
YearWorlds == [total : LargeTotals, by_year : [Years -> YearTotals]]

(* Totals on both sides of the threshold, with a page size that keeps the  *)
(* number of pages small.                                                  *)
BoundaryWorlds ==
    [total : {LargeResultsThreshold, LargeResultsThreshold + 1},
     by_year : {[y \in Years |-> 0]}]

(* Runs without a logs bucket: the planner and the page loop alone.  The   *)
(* years of the command line are read only by year partitioning.           *)
PlanInputs ==
    (Config(0..MaxResumePage, {NoPage} \cup 0..MaxStopPage,
            0..MaxResumeIndex, {FALSE}, BOOLEAN, {200}, {1}, {NoYear},
            {FALSE})
       \X DirectWorlds)
    \cup
    (Config(0..MaxResumePage, {NoPage} \cup 0..MaxStopPage,
            {0, MaxResumeIndex}, {FALSE}, BOOLEAN, {200},
            Years, Years \cup {NoYear}, {FALSE})
       \X YearWorlds)
    \cup
    (Config({0}, {NoPage}, {0}, {FALSE}, {FALSE}, {5000}, {1}, {MaxYear},
            {FALSE})
       \X BoundaryWorlds)

NextPlan ==
    \/ StartRun(PlanInputs, MaxRuns)
    \/ ProcessEnds
    \/ Run(Responses)
    \/ GetDateFails
    \/ YearLoop(Responses)
    \/ PageLoop
    \/ GetObservations(Responses, Listings)
    \/ Download(Responses, {<<>>}, {"ok"})
    \/ Interrupt

SpecPlan == Init /\ [][NextPlan]_vars

(* Runs with a logs bucket, against the checkpoint record the earlier runs *)
(* left.                                                                   *)
CkptResponses == {"ok", "conn_error"}
CkptListings == {<<>>, <<1, 2>>}
CkptYearWorlds == [total : LargeTotals, by_year : {[y \in Years |-> 200]}]

CkptInputs ==
    (Config(0..MaxResumePage, {NoPage}, {0}, {TRUE}, BOOLEAN, {200}, {1},
            {NoYear}, {TRUE})
       \X DirectWorlds)
    \cup
    (Config(0..MaxResumePage, {NoPage}, {0}, {TRUE}, BOOLEAN, {200},
            Years, Years \cup {NoYear}, {TRUE})
       \X CkptYearWorlds)
    \cup
    (Config({0}, {NoPage}, {0}, {FALSE}, {FALSE}, {200}, {1}, {NoYear},
            {TRUE})
       \X [total : {0}, by_year : {[y \in Years |-> 0]}])

NextCkpt ==
    \/ StartRun(CkptInputs, MaxCkptRuns)
    \/ ProcessEnds
    \/ Run(CkptResponses)
    \/ GetDateFails
    \/ YearLoop(CkptResponses)
    \/ PageLoop
    \/ NoS3Client
    \/ WriteProgressFile(CkptResponses)
    \/ CheckProgress
    \/ GetObservations(CkptResponses, CkptListings)
    \/ Download(CkptResponses, {<<>>}, {"ok"})
    \/ DumpLogs
    \/ MarkComplete
    \/ Interrupt

SpecCkpt == Init /\ [][NextCkpt]_vars

(* Runs that store photos, in the bucket or in the output directory, one   *)
(* after the other on the same stores.                                     *)
PhotoA == [id |-> 1, bytes |-> 1, suffix |-> ".jpg"]
PhotoB == [id |-> 2, bytes |-> 1, suffix |-> ".JPEG"]
PhotoC == [id |-> 3, bytes |-> 2, suffix |-> ".PNG"]

StoreObservations == {<<>>, <<PhotoA>>, <<PhotoB, PhotoC>>}
StoreListings == {<<1, 2>>}

StoreInputs ==
    Config({0}, {NoPage}, {0}, BOOLEAN, {FALSE}, {200}, {1}, {NoYear},
           {FALSE})
       \X [total : {100}, by_year : {[y \in Years |-> 0]}]

NextStore ==
    \/ StartRun(StoreInputs, MaxStoreRuns)
    \/ ProcessEnds
    \/ Run(Responses)
    \/ PageLoop
    \/ GetObservations(Responses, StoreListings)
    \/ Download(Responses, StoreObservations, PhotoOutcomesAll)
    \/ Interrupt

SpecStore == Init /\ [][NextStore]_vars

(* Runs with a logs bucket and a bucket for the photos, interrupted and    *)
(* started again.                                                          *)
ResumeListings == {<<>>, <<1, 2>>}
ResumeObservations == {<<>>, <<PhotoA>>}
ResumeOutcomes == {"ok", "http_error"}

ResumeInputs ==
    Config({0}, {NoPage}, 0..MaxResumeIndex, {TRUE}, {FALSE}, {200}, {1},
           {2}, {TRUE})
       \X ([total : {200}, by_year : {[y \in Years |-> 0]}]
           \cup [total : LargeTotals, by_year : {[y \in Years |-> 100]}])

NextResume ==
    \/ StartRun(ResumeInputs, MaxResumeRuns)
    \/ ProcessEndsResumable
    \/ Run(Responses)
    \/ YearLoop(Responses)
    \/ PageLoop
    \/ WriteProgressFile(Responses)
    \/ CheckProgress
    \/ GetObservations(Responses, ResumeListings)
    \/ Download(Responses, ResumeObservations, ResumeOutcomes)
    \/ DumpLogs
    \/ MarkComplete
    \/ Interrupt

SpecResume == Init /\ [][NextResume]_vars

----------------------------------------------------------------------------
(* The standalone script (src/scraper.py, class iNatPhotoScraper): direct  *)
(* paging only, no checkpoint record, the same object names in the same    *)
(* bucket.                                                                 *)

ScriptPageSize == 200

NoScript ==
    [latest_page |-> 0, latest_uuid_index |-> 0, upload_to_s3 |-> FALSE,
     uuids |-> <<>>, observations |-> <<>>, failed_observations |-> <<>>,
     failed_downloads |-> <<>>]

(* None, as line 147 appends it to the observations *)
NoObservation == [uuid |-> 0, photos |-> <<>>]

(* The script's _get_num_pages, lines 114-118 *)
script_get_num_pages(total_results) == (total_results \div ScriptPageSize) + 1

(* run, line 199: for page in pages_range: the next iteration *)
ScriptNextPage(p) ==
    [p EXCEPT !.pc = "script_page", !.page = p.page + 1,
              !.uuids = <<>>, !.n = 0]

(* __main__, lines 244-252: the script is started from the command line *)
ScriptStart(Inputs, max_runs) ==
    /\ proc.pc = "idle"
    /\ runs < max_runs
    /\ \E in \in Inputs :
          /\ self' = [NoScript EXCEPT
                        !.latest_page = in[1].latest_page,
                        !.latest_uuid_index = in[1].latest_uuid_index,
                        !.upload_to_s3 = in[1].upload_to_s3]
          /\ proc' = [NoProc EXCEPT !.pc = "script_run"]
          /\ api' = in[2]
          /\ hist' = [NoHist EXCEPT !.cfg = self']
    /\ runs' = runs + 1
    /\ UNCHANGED <<progress, logs, store>>

(* run, lines 191-197.  _get_request returns None for a failed request     *)
(* (lines 107-110) and _get_num_pages subscripts it (line 117): TypeError. *)
ScriptRun(Answers) ==
    /\ proc.pc = "script_run"
    /\ \E r \in Answers :
          IF r = "ok"
          THEN /\ proc' = [proc EXCEPT
                             !.pc = "script_page",
                             !.page = RangeFrom(
                                        script_get_num_pages(api.total),
                                        self.latest_page),
                             !.hi = script_get_num_pages(api.total)]
               /\ hist' = [hist EXCEPT !.total = api.total]
          ELSE /\ proc' = Exited(proc, 1)
               /\ hist' = [hist EXCEPT !.count_failed = TRUE]
    /\ UNCHANGED <<self, api, progress, logs, store, runs>>

(* run, lines 199-208: the next page of the loop and its listing.  For a   *)
(* failed request get_observations_uuids returns None (lines 132-134) and  *)
(* line 207 extends a list with it: TypeError.                             *)
ScriptPage(Answers, Pages) ==
    /\ proc.pc = "script_page"
    /\ IF proc.page >= proc.hi
       THEN /\ proc' = Exited(proc, 0)
            /\ UNCHANGED <<self, hist>>
       ELSE LET c == <<NoYear, proc.page>>
                s == [self EXCEPT !.latest_page = proc.page]
            IN  \E r \in Answers :
                   IF r # "ok"
                   THEN /\ self' = s
                        /\ proc' = Exited(proc, 1)
                        /\ hist' = [hist EXCEPT
                              !.acquired = @ \cup {c},
                              !.listed = @ \cup {c}]
                   ELSE \E uuids \in Pages :
                      /\ hist' = [hist EXCEPT
                            !.acquired = @ \cup {c},
                            !.listed = @ \cup {c},
                            !.lists = @ \cup {[cursor |-> c,
                                               uuids |-> uuids]}]
                      /\ IF DuplicateResponse(uuids, self.uuids)
                         THEN /\ self' = s
                              /\ proc' = ScriptNextPage(proc)
                         ELSE LET todo == SliceFrom(uuids,
                                             self.latest_uuid_index)
                              IN  /\ self' = [s EXCEPT
                                        !.uuids = Extend(@, uuids)]
                                  /\ proc' =
                                       IF todo = <<>>
                                       THEN ScriptNextPage(proc)
                                       ELSE [proc EXCEPT
                                               !.pc = "script_download",
                                               !.uuids = todo,
                                               !.n = self.latest_uuid_index]
    /\ UNCHANGED <<api, progress, logs, store, runs>>

(* The script's download_photos, lines 153-180: the loop over the photos   *)
(* from position k on.  For a failed photo request line 164 formats a      *)
(* message with the name e, which is not defined in download_photos:       *)
(* NameError, before line 166.  put_object's exceptions are not caught.    *)
RECURSIVE ScriptStoreFrom(_, _, _, _)
ScriptStoreFrom(acc, photos, outs, k) ==
    IF k > Len(photos) THEN acc
    ELSE LET photo == photos[k]
             fname == Fname(photo)
             got == [acc EXCEPT !.tried = @ \cup {k}]
         IN  IF outs[k] \in {"http_error", "conn_error"}
             THEN [got EXCEPT !.raised = TRUE]
             ELSE IF acc.self.upload_to_s3
             THEN IF outs[k] \in {"put_error", "s3_error"}
                  THEN [got EXCEPT !.raised = TRUE]
                  ELSE ScriptStoreFrom(
                         [got EXCEPT
                            !.puts = @ \cup
                               {[key |-> fname,
                                 present |-> fname \in DOMAIN acc.store]},
                            !.store = Put(acc.store, fname,
                                          Bytes(photo.bytes)),
                            !.stored = @ \cup
                               {[photo |-> photo, key |-> fname]}],
                         photos, outs, k + 1)
             ELSE ScriptStoreFrom(
                    [got EXCEPT
                       !.store = Put(acc.store, LocalPath(fname),
                                     Bytes(photo.bytes)),
                       !.stored = @ \cup
                          {[photo |-> photo, key |-> LocalPath(fname)]}],
                    photos, outs, k + 1)

(* The script's download_photos, lines 139-151.  A failed observation      *)
(* request puts the UUID in failed_observations (line 145) and does not    *)
(* return: line 147 appends None and line 148 subscripts it, TypeError.    *)
script_download_photos(s, st, uuid, r, obs, outs) ==
    CASE r = "http_error" ->
           [Outcome([s EXCEPT
                       !.failed_observations = Append(@, Uuid(uuid)),
                       !.observations = Append(@, NoObservation)],
                    st) EXCEPT !.raised = TRUE]
      [] r = "conn_error" ->
           [Outcome(s, st) EXCEPT !.raised = TRUE]
      [] OTHER ->
           ScriptStoreFrom(
             Outcome([s EXCEPT !.observations =
                        Append(@, [uuid |-> uuid, photos |-> obs])], st),
             obs, outs, 1)

(* run, lines 210-213: one iteration of the loop over the UUIDs *)
ScriptDownload(Answers, Observations, PhotoOutcomes) ==
    /\ proc.pc = "script_download"
    /\ \E r \in Answers, obs \in Observations :
       \E outs \in [1..Len(obs) -> PhotoOutcomes] :
          LET res == script_download_photos(
                        [self EXCEPT !.latest_uuid_index = proc.n],
                        store, Head(proc.uuids), r, obs, outs)
              rest == [proc EXCEPT !.uuids = Tail(@), !.n = @ + 1]
              c == <<NoYear, proc.page>>
          IN  /\ r # "ok" => obs = <<>>
              /\ self' = [res.self EXCEPT !.latest_uuid_index =
                            IF ~res.raised /\ rest.uuids # <<>>
                            THEN rest.n ELSE proc.n]
              /\ store' = res.store
              /\ proc' = IF res.raised THEN Exited(proc, 1)
                         ELSE IF rest.uuids = <<>> THEN ScriptNextPage(rest)
                         ELSE rest
              /\ hist' = [hist EXCEPT
                    !.downloads = @ \cup
                       {[cursor |-> c, n |-> proc.n,
                         uuid |-> Head(proc.uuids)]},
                    !.fetches = @ \cup
                       {[cursor |-> c, n |-> proc.n,
                         uuid |-> Head(proc.uuids), r |-> r,
                         photos |-> obs, outs |-> outs,
                         tried |-> res.tried, raised |-> res.raised,
                         present |-> res.present]},
                    !.puts = @ \cup res.puts,
                    !.stored = @ \cup
                       {[uuid |-> Head(proc.uuids), photo |-> e.photo,
                         key |-> e.key] : e \in res.stored}]
    /\ UNCHANGED <<api, progress, logs, runs>>

(* The script's _keyboard_interrupt_handler, lines 70-81 *)
ScriptReport(s) ==
    [page |-> s.latest_page, index |-> s.latest_uuid_index,
     year |-> NoYear,
     failed_observations |-> s.failed_observations,
     failed_downloads |-> s.failed_downloads]

ScriptInterrupt ==
    /\ proc.pc \in ScriptPcs
    /\ proc' = Exited(proc, 1)
    /\ hist' = [hist EXCEPT !.interrupted = TRUE,
                            !.reported = {ScriptReport(self)}]
    /\ UNCHANGED <<self, api, progress, logs, store, runs>>

(* Runs of the script alone *)
MaxScriptRuns == 1

ScriptResponses == {"ok", "http_error"}
ScriptListings == {<<>>, <<1, 2>>}

ScriptInputs ==
    [latest_page : {0}, latest_uuid_index : 0..MaxResumeIndex,
     upload_to_s3 : BOOLEAN]
       \X [total : {200}, by_year : {[y \in Years |-> 0]}]

NextScript ==
    \/ ScriptStart(ScriptInputs, MaxScriptRuns)
    \/ ProcessEnds
    \/ ScriptRun(Responses)
    \/ ScriptPage(Responses, ScriptListings)
    \/ ScriptDownload(ScriptResponses, StoreObservations, ScriptResponses)
    \/ ScriptInterrupt

SpecScript == Init /\ [][NextScript]_vars

(* Runs of the script and of the package, one after the other, on the same *)
(* bucket (S3_BUCKET_NAME): what the script has put there, the package     *)
(* finds.                                                                  *)
MaxSharedRuns == 2

SharedResponses == {"ok"}
SharedListings == {<<1, 2>>}
SharedObservations == {<<PhotoA>>, <<PhotoB, PhotoC>>}

SharedScriptInputs ==
    [latest_page : {0}, latest_uuid_index : {0}, upload_to_s3 : {TRUE}]
       \X [total : {100}, by_year : {[y \in Years |-> 0]}]

SharedInputs ==
    Config({0}, {NoPage}, {0}, {TRUE}, {FALSE}, {200}, {1}, {NoYear},
           {FALSE})
       \X [total : {100}, by_year : {[y \in Years |-> 0]}]

NextShared ==
    \/ ScriptStart(SharedScriptInputs, MaxSharedRuns)
    \/ ScriptRun(SharedResponses)
    \/ ScriptPage(SharedResponses, SharedListings)
    \/ ScriptDownload(SharedResponses, SharedObservations, SharedResponses)
    \/ ScriptInterrupt
    \/ StartRun(SharedInputs, MaxSharedRuns)
    \/ Run(SharedResponses)
    \/ PageLoop
    \/ GetObservations(SharedResponses, SharedListings)
    \/ Download(SharedResponses, SharedObservations, SharedResponses)
    \/ Interrupt
    \/ ProcessEnds

SpecShared == Init /\ [][NextShared]_vars

----------------------------------------------------------------------------
(* Two runs at the same time on one taxon.  Here self and proc hold the    *)
(* fields and the position of each of the two processes, and a process     *)
(* keeps, as the code does in the local variable `progress`, the copy of   *)
(* the checkpoint record it has read: every get_object and every           *)
(* put_object on the logs bucket is a step of its own.  Both runs are      *)
(* direct runs from page 0 with a logs bucket and --upload-to-s3, and      *)
(* every request is answered.                                              *)

Writers == {1, 2}
WritersTotal == 200

NoCopy == [exists |-> FALSE, obj |-> NoDict]

InitWriters ==
    /\ self = [w \in Writers |-> [NoSelf EXCEPT !.upload_to_s3 = TRUE]]
    /\ proc = [w \in Writers |->
                 [pc |-> "run", page |-> 0, hi |-> 0, progress |-> NoCopy]]
    /\ api = [NoApi EXCEPT !.total = WritersTotal]
    /\ progress = [exists |-> FALSE, obj |-> NoDict]
    /\ logs = {}
    /\ store = NoStore
    /\ runs = Cardinality(Writers)
    /\ hist = NoHist

(* run(), lines 505-507 and 541 *)
WriterRun(w) ==
    /\ proc[w].pc = "run"
    /\ LET np == get_num_pages(api.total, self[w].results_per_page)
       IN  proc' = [proc EXCEPT ![w].pc = "page_loop",
                                ![w].page = RangeFrom(np[1],
                                              self[w].resume_from_page),
                                ![w].hi = np[1]]
    /\ UNCHANGED <<self, api, progress, logs, store, runs, hist>>

(* run(), lines 542-543, and _parse, lines 445-456 *)
WriterPageLoop(w) ==
    /\ proc[w].pc = "page_loop"
    /\ IF proc[w].page >= proc[w].hi
       THEN /\ proc' = [proc EXCEPT ![w].pc = "exited"]
            /\ self' = self
       ELSE /\ proc' = [proc EXCEPT ![w].pc = "begin"]
            /\ self' = [self EXCEPT ![w].start_year = NoYear,
                                    ![w].resume_from_page = proc[w].page]
    /\ UNCHANGED <<api, progress, logs, store, runs, hist>>

(* check_progress, lines 351-355: list_objects on the logs bucket *)
WriterListObjects(w) ==
    /\ proc[w].pc = "begin"
    /\ proc' = [proc EXCEPT ![w].pc = IF progress.exists
                                      THEN "get" ELSE "write_file"]
    /\ UNCHANGED <<self, api, progress, logs, store, runs, hist>>

(* check_progress, lines 356-359, and _write_progress_file, lines 312-317 *)
WriterWriteProgressFile(w) ==
    /\ proc[w].pc = "write_file"
    /\ progress' = [exists |-> TRUE,
                    obj |-> NewProgress(self[w], api, FALSE)]
    /\ proc' = [proc EXCEPT ![w].pc = "get"]
    /\ UNCHANGED <<self, api, logs, store, runs, hist>>

(* check_progress, lines 361-363: get_object and json.loads *)
WriterGetObject(w) ==
    /\ proc[w].pc = "get"
    /\ proc' = [proc EXCEPT ![w].pc = "check", ![w].progress = progress]
    /\ UNCHANGED <<self, api, progress, logs, store, runs, hist>>

(* check_progress, lines 365-382: the status in the copy, and the put of   *)
(* the copy with the page in-progress                                      *)
WriterCheckProgress(w) ==
    /\ proc[w].pc = "check"
    /\ LET status == ReadStatus(proc[w].progress.obj, NoYear, proc[w].page)
       IN  IF status = "KeyError"
           THEN /\ proc' = [proc EXCEPT ![w].pc = "exited"]
                /\ progress' = progress
           ELSE IF status \in {"complete", "in-progress"}
           THEN /\ proc' = [proc EXCEPT ![w].pc = "page_loop",
                                        ![w].page = @ + 1]
                /\ progress' = progress
           ELSE /\ progress' =
                     [exists |-> TRUE,
                      obj |-> BeginWrite(proc[w].progress.obj, NoYear,
                                         proc[w].page)]
                /\ proc' = [proc EXCEPT ![w].pc = "parse"]
    /\ UNCHANGED <<self, api, logs, store, runs, hist>>

(* _parse, lines 461-493: the listing and the downloads of the page, which *)
(* do not touch the checkpoint record                                      *)
WriterParse(w) ==
    /\ proc[w].pc = "parse"
    /\ proc' = [proc EXCEPT ![w].pc = "complete_get"]
    /\ UNCHANGED <<self, api, progress, logs, store, runs, hist>>

(* check_progress(page, mark_as_complete=True), lines 339-341 *)
WriterCompleteGet(w) ==
    /\ proc[w].pc = "complete_get"
    /\ proc' = [proc EXCEPT ![w].pc = "complete_put",
                            ![w].progress = progress]
    /\ UNCHANGED <<self, api, progress, logs, store, runs, hist>>

(* check_progress(page, mark_as_complete=True), lines 342-349 *)
WriterCompletePut(w) ==
    /\ proc[w].pc = "complete_put"
    /\ progress' = [exists |-> TRUE,
                    obj |-> CompleteWrite(proc[w].progress.obj, NoYear,
                                          proc[w].page)]
    /\ proc' = [proc EXCEPT ![w].pc = "page_loop", ![w].page = @ + 1]
    /\ UNCHANGED <<self, api, logs, store, runs, hist>>

NextWriters ==
    \/ \E w \in Writers : WriterRun(w)
    \/ \E w \in Writers : WriterPageLoop(w)
    \/ \E w \in Writers : WriterListObjects(w)
    \/ \E w \in Writers : WriterWriteProgressFile(w)
    \/ \E w \in Writers : WriterGetObject(w)
    \/ \E w \in Writers : WriterCheckProgress(w)
    \/ \E w \in Writers : WriterParse(w)
    \/ \E w \in Writers : WriterCompleteGet(w)
    \/ \E w \in Writers : WriterCompletePut(w)

SpecWriters == InitWriters /\ [][NextWriters]_vars

----------------------------------------------------------------------------
(* Properties of the planner and of the page loop (SpecPlan) *)

CeilDiv(a, b) == (a + b - 1) \div b

RunOver == proc.pc = "exited" /\ proc.exit_code = 0 /\ ~hist.interrupted

PlainRun ==
    /\ hist.cfg.resume_from_page = 0
    /\ hist.cfg.stop_at_page = NoPage
    /\ ~hist.cfg.one_page_only

(* 0-based positions of a downloaded UUID in the listing of its cursor *)
PositionsOf(d) ==
    UNION {{k - 1 : k \in {j \in 1..Len(l.uuids) : l.uuids[j] = d.uuid}} :
             l \in {x \in hist.lists : x.cursor = d.cursor}}

(* C5: in a run resumed at page p and observation index i, no cursor with  *)
(* a page number below p is taken from the page range, listed or           *)
(* downloaded, and on page p no observation at an index below i is         *)
(* downloaded.                                                             *)
C5_ResumeCorrectness ==
    LET p == hist.cfg.resume_from_page
        i == hist.cfg.resume_from_uuid_index
    IN  /\ \A c \in hist.acquired \cup hist.listed \cup hist.begun :
              c[2] >= p
        /\ (proc.pc = "page_loop" /\ proc.page < proc.hi) => proc.page >= p
        /\ \A d \in hist.downloads :
              /\ d.cursor[2] >= p
              /\ d.cursor[2] = p => \A k \in PositionsOf(d) : k >= i

C5_Witness ==
    /\ hist.cfg.resume_from_page > 0
    /\ hist.cfg.resume_from_uuid_index > 0
    /\ \E d \in hist.downloads :
          /\ d.cursor[2] = hist.cfg.resume_from_page
          /\ PositionsOf(d) = {hist.cfg.resume_from_uuid_index}

(* C6: a cursor whose listing equals the listing returned for an earlier   *)
(* cursor of the run is skipped: no download is attempted for it.          *)
C6_DuplicatePageSkipped ==
    \A c \in hist.repeated : \A d \in hist.downloads : d.cursor # c

(* C7: get_num_pages returns ceil(T/S) pages, and a direct run from page 0 *)
(* with no stop visits exactly that many pages.                            *)
C7_NumPagesIsCeil ==
    /\ (proc.pc = "page_loop" /\ ~self.is_large_results)
          => proc.hi = CeilDiv(hist.total, self.results_per_page)
    /\ (RunOver /\ PlainRun /\ ~self.is_large_results)
          => Cardinality(hist.acquired)
                = CeilDiv(hist.total, self.results_per_page)

(* C8: the run partitions by year if and only if the first count query     *)
(* reports more than 10000 observations; up to 10000 every cursor is a     *)
(* page without a year and no per-year count query is issued.              *)
C8_YearPartitioningIff ==
    hist.total # -1 =>
       /\ self.is_large_results <=> hist.total > 10000
       /\ proc.pc = "year_loop" => hist.total > 10000
       /\ hist.total <= 10000 =>
             /\ \A c \in hist.acquired \cup hist.listed : c[1] = NoYear
             /\ hist.counted = {} /\ hist.probed = {}
       /\ hist.total > 10000 =>
             \A c \in hist.acquired \cup hist.listed : c[1] # NoYear

C8_Witness ==
    /\ hist.total > 10000
    /\ hist.counted # {}
    /\ \E c \in hist.listed : c[1] # NoYear

(* C9: in year mode every year of [start_year, end_year], both ends       *)
(* included, is visited: its page count is queried and (in a run from page *)
(* 0 with no stop) its pages are processed.                                *)
C9_EveryYearVisited ==
    (RunOver /\ self.is_large_results) =>
       \A y \in hist.first_year..self.end_year :
          /\ y \in hist.counted
          /\ PlainRun =>
                \A p \in 0..(get_num_pages(api.by_year[y],
                               self.results_per_page)[1] - 1) :
                   <<y, p>> \in hist.acquired

(* C10: a year whose count query reports zero observations has zero pages: *)
(* no page of it is begun, no listing is fetched for it and no failure is  *)
(* recorded because of it.                                                 *)
C10_EmptyYearNoPages ==
    \A y \in hist.counted :
       api.by_year[y] = 0 =>
          /\ \A c \in hist.listed \cup hist.begun : c[1] # y
          /\ \A k \in 1..Len(self.failed_observations) :
                LET e == self.failed_observations[k]
                IN  ~(e.kind = "url" /\ e.what = "listing" /\ e.b = y)

(* The cursors for which a download was attempted *)
DownloadedCursors == {d.cursor : d \in hist.downloads}

(* C16: with a stop page, the cursor whose page number equals it is not    *)
(* begun, listed or downloaded, and once it is reached the run takes no    *)
(* further cursor, in the same year or in a later one.                     *)
C16_StopPageEndsRun ==
    [][/\ \A c \in hist'.acquired \cup hist'.listed \cup hist'.begun
                   \cup DownloadedCursors' :
             c[2] # hist'.cfg.stop_at_page
       /\ hist.stopped_by = "stop_page" =>
             /\ hist'.acquired \subseteq hist.acquired
             /\ hist'.listed \subseteq hist.listed
             /\ hist'.downloads \subseteq hist.downloads
      ]_vars

(* C17: in a single-page-only run a download is attempted for at most one  *)
(* cursor, and once a cursor has returned the single-page stop signal the  *)
(* run takes no further cursor, in direct mode and in year mode.           *)
C17_SinglePageOnly ==
    [][hist'.cfg.one_page_only =>
          /\ Cardinality(DownloadedCursors') <= 1
          /\ hist.stopped_by \in {"skip", "empty", "done"} =>
                /\ hist'.acquired \subseteq hist.acquired
                /\ hist'.listed \subseteq hist.listed
                /\ hist'.downloads \subseteq hist.downloads
      ]_vars

(* The cursor c1 comes before the cursor c2 in the order of the run *)
Precedes(c1, c2) == c1[1] < c2[1] \/ (c1[1] = c2[1] /\ c1[2] < c2[2])

(* C24: the index to resume from applies to the first page of the run      *)
(* only: for a page processed after the first one, a download is attempted *)
(* for the observation at every index of its listing, from 0 on.           *)
C24_ResumeIndexFirstPageOnly ==
    \A l \in hist.lists :
       (/\ l.cursor \in hist.processed
        /\ \E c \in hist.acquired : Precedes(c, l.cursor))
       => \A k \in 0..(Len(l.uuids) - 1) :
             \E d \in hist.downloads : d.cursor = l.cursor /\ d.n = k

(* C25: in year mode, from page 0 and with no stop page, once the run has  *)
(* left a year every page 0..n-1 of it has been acquired, n being the      *)
(* number of pages the count query of the year gave.                       *)
C25_YearPageRangeNotShortened ==
    (self.is_large_results /\ PlainRun) =>
       \A y \in hist.counted :
          proc.year > y =>
             \A p \in 0..(get_num_pages(api.by_year[y],
                            self.results_per_page)[1] - 1) :
                <<y, p>> \in hist.acquired

----------------------------------------------------------------------------
(* Properties of the checkpoint record (SpecCkpt) *)

Rank(status) ==
    CASE status = "pending" -> 0
      [] status = "in-progress" -> 1
      [] status = "complete" -> 2

(* The entries of a checkpoint record: where each is, and its status *)
Entries(obj) ==
    {[year |-> NoYear, page |-> k, status |-> obj[k].s] :
        k \in {x \in DOMAIN obj : obj[x].tag = "str"}}
    \cup
    UNION {{[year |-> y, page |-> p, status |-> obj[y].d[p]] :
               p \in DOMAIN obj[y].d} :
             y \in {x \in DOMAIN obj : obj[x].tag = "dict"}}

(* C1: with a single writer, over any sequence of runs, no entry of the    *)
(* checkpoint record is persisted with a status earlier than the one it    *)
(* was persisted with before: complete stays complete, in-progress never   *)
(* goes back to pending.                                                   *)
C1_StatusNeverRegresses ==
    [][\A e \in Entries(progress.obj), f \in Entries(progress'.obj) :
          (e.year = f.year /\ e.page = f.page)
             => Rank(f.status) >= Rank(e.status)]_vars

(* C2: when the status of the cursor is pending, begin changes the         *)
(* persisted status of exactly that cursor to in-progress, in direct mode  *)
(* and in year mode.                                                       *)
C2_BeginMarksCursor ==
    [][\A c \in hist'.begun \ hist.begun :
          ReadStatus(progress.obj, c[1], c[2]) = "pending" =>
             /\ ReadStatus(progress'.obj, c[1], c[2]) = "in-progress"
             /\ \A e \in Entries(progress.obj) :
                   (e.year # c[1] \/ e.page # c[2])
                      => e \in Entries(progress'.obj)]_vars

(* C3: a cursor found in-progress or complete is skipped: the record is    *)
(* left unchanged, nothing is listed or downloaded for the cursor, and a   *)
(* single-page-only run stops there: it takes no further cursor.           *)
C3_SkipOwnedCursor ==
    [][/\ hist'.skipped # hist.skipped => progress' = progress
       /\ \A c \in hist.skipped :
             /\ c \notin hist'.listed
             /\ \A d \in hist'.downloads : d.cursor # c
       /\ hist.stopped_by = "skip" => hist'.acquired \subseteq hist.acquired
      ]_vars

(* C4: with a logs bucket, once the last observation of a page is          *)
(* processed the page is complete in the record and the failure lists are  *)
(* flushed before the run takes its next cursor or ends, in                *)
(* single-page-only runs too.                                              *)
C4_CompleteBeforeAdvance ==
    (/\ proc.logs_bucket
     /\ \/ proc.pc \in {"page_loop", "year_loop"}
        \/ proc.pc = "exited" /\ proc.exit_code = 0)
    => \A c \in hist.processed :
          /\ c \in hist.flushed
          /\ c \in hist.completed

----------------------------------------------------------------------------
(* Properties of the content store (SpecStore) *)

(* The key of the given bytes and suffix in the backend of the key k *)
KeyOf(bytes, suffix, k) ==
    LET name == [stem |-> Md5(Bytes(bytes)), suffix |-> Normalize(suffix)]
    IN  IF "dir" \in DOMAIN k THEN LocalPath(name) ELSE name

(* C11: byte-identical photos whose URLs have the same normalized          *)
(* extension, stored for any two observations or photo identifiers, are    *)
(* held in one object: each is stored under md5(bytes) followed by the     *)
(* normalized extension, whatever the UUID and the identifier, and the     *)
(* store holds that key.                                                   *)
C11_IdempotentStorage ==
    /\ \A e \in hist.stored :
          /\ e.key = KeyOf(e.photo.bytes, e.photo.suffix, e.key)
          /\ e.key \in DOMAIN store
    /\ \A e1, e2 \in hist.stored :
          (/\ e1.photo.bytes = e2.photo.bytes
           /\ Normalize(e1.photo.suffix) = Normalize(e2.photo.suffix)
           /\ ("dir" \in DOMAIN e1.key) = ("dir" \in DOMAIN e2.key))
          => e1.key = e2.key

C11_Witness ==
    \E e1, e2 \in hist.stored :
       /\ e1.uuid # e2.uuid
       /\ e1.photo.id # e2.photo.id
       /\ e1.photo.suffix # e2.photo.suffix
       /\ e1.photo.bytes = e2.photo.bytes
       /\ e1.key = e2.key
       /\ e1.key \in DOMAIN store

(* x is an entry of the list lst *)
Holds(lst, x) == \E k \in 1..Len(lst) : lst[k] = x

(* C12: within a page a failed observation fetch puts the observation in   *)
(* failed_observations and does not end the run (the next UUID is taken);  *)
(* a failed photo download puts the photo URL in failed_downloads, does    *)
(* not end the run, and the remaining photos of the observation are        *)
(* requested.                                                              *)
C12_FailuresDoNotAbortPage ==
    \A f \in hist.fetches :
       /\ f.r # "ok" =>
             /\ ~f.raised
             /\ Holds(self.failed_observations, Uuid(f.uuid))
       /\ f.r = "ok" =>
             \A k \in f.tried :
                f.outs[k] \in {"http_error", "conn_error"} =>
                   /\ ~f.raised
                   /\ Holds(self.failed_downloads, PhotoUrl(f.photos[k]))
                   /\ \A j \in (k + 1)..Len(f.photos) : j \in f.tried

(* C13: a run ends with a non-zero status only on an interrupt or on a     *)
(* failed count query: no failed request, empty result or failed upload    *)
(* ends it.                                                                *)
C13_OnlyCountFailureTerminates ==
    (proc.pc = "exited" /\ proc.exit_code # 0)
       => (hist.interrupted \/ hist.count_failed)

(* C20: no put is issued for a key under which the engine has already      *)
(* stored a photo in the object store.                                     *)
C20_NoPutOnStoredKey ==
    \A e \in hist.puts : ~e.present

(* C21: after a photo is stored, in the bucket as in the output directory, *)
(* the content held under its key md5(bytes) + extension is the bytes of   *)
(* the photo the key was computed from.                                    *)
C21_StoredContentIsPhoto ==
    \A e \in hist.stored :
       /\ e.key \in DOMAIN store
       /\ SameContent(store[e.key], Bytes(e.photo.bytes))

(* The photos of a fetch whose download failed with an error the engine   *)
(* catches                                                                 *)
FailedPhotos(f) == {k \in f.tried : f.outs[k] = "http_error"}

(* C27: a failed observation fetch adds exactly one entry to               *)
(* failed_observations and none to failed_downloads; a failed photo        *)
(* download adds one entry, the URL of the photo, to failed_downloads and  *)
(* leaves failed_observations as it was.                                   *)
C27_FailureListsSeparate ==
    [][\A f \in hist'.fetches \ hist.fetches :
          /\ f.r = "http_error" =>
                /\ Len(self'.failed_observations)
                      = Len(self.failed_observations) + 1
                /\ self'.failed_downloads = self.failed_downloads
          /\ (/\ f.r = "ok"
              /\ ~f.raised
              /\ \A k \in f.tried : f.outs[k] # "put_error") =>
                /\ self'.failed_observations = self.failed_observations
                /\ Len(self'.failed_downloads)
                      = Len(self.failed_downloads)
                        + Cardinality(FailedPhotos(f))
                /\ \A k \in FailedPhotos(f) :
                      Holds(self'.failed_downloads, PhotoUrl(f.photos[k]))
      ]_vars

----------------------------------------------------------------------------
(* Properties of the ends of a run (SpecResume) *)

(* C14: a failed count query ends the run with a non-zero status; when it  *)
(* is the query for the total, or the one made to create the checkpoint    *)
(* record, no page has been begun, listed, downloaded or completed and the *)
(* record is as it was when the run started.  A run that leaves its loops  *)
(* with no interrupt and no failed count query ends with status zero.      *)
C14_CountFailureExit ==
    [][/\ hist'.count_failed =>
             /\ proc'.pc = "exited"
             /\ proc'.exit_code # 0
       /\ (hist'.count_failed /\ proc.pc # "year_loop") =>
             /\ hist'.begun = {}
             /\ hist'.listed = {}
             /\ hist'.downloads = {}
             /\ hist'.completed = {}
             /\ progress' = hist'.progress0
       /\ (/\ proc.pc \in {"page_loop", "year_loop"}
           /\ proc'.pc = "exited"
           /\ ~hist'.interrupted
           /\ ~hist'.count_failed) => proc'.exit_code = 0
      ]_vars

C14_Witness ==
    /\ hist.count_failed
    /\ hist.total = -1
    /\ ~hist.interrupted
    /\ proc.pc = "exited"
    /\ proc.exit_code = 1
    /\ progress.exists
    /\ Holds(self.failed_observations, Url("count", NoYear, 0))

(* C15: an interrupt makes the engine report the page, the index of the    *)
(* observation in flight and the year of the current cursor (none in       *)
(* direct mode) with both failure lists, and end with a non-zero status;   *)
(* the checkpoint record, the logs and the content store are left as they  *)
(* were.                                                                   *)
C15_InterruptReportsCursor ==
    [][(hist'.interrupted /\ ~hist.interrupted) =>
          /\ proc'.pc = "exited"
          /\ proc'.exit_code # 0
          /\ progress' = progress
          /\ store' = store
          /\ logs' = logs
          /\ \E r \in hist'.reported :
                /\ hist'.reported = {r}
                /\ r.failed_observations = self.failed_observations
                /\ r.failed_downloads = self.failed_downloads
                /\ proc.pc \in {"begin", "list", "download",
                                "dump_logs", "complete"} =>
                      /\ r.page = proc.page
                      /\ r.year = Cursor[1]
                /\ proc.pc = "download" => r.index = proc.n
                /\ proc.pc = "run" =>
                      /\ r.page = hist.cfg.resume_from_page
                      /\ r.index = hist.cfg.resume_from_uuid_index
                      /\ r.year = hist.cfg.start_year
      ]_vars

C15_Witness ==
    /\ hist.interrupted
    /\ proc.uuids # <<>>
    /\ proc.n > 0
    /\ \E r \in hist.reported : r.index = proc.n /\ r.year # NoYear
    /\ DOMAIN store # {}
    /\ progress.exists
    /\ self.failed_observations # <<>>

(* C18: in a run that is not single-page-only, a cursor whose listing      *)
(* fails or comes back empty gets a page-level entry in the failure        *)
(* ledger, no download and no completion, and the run does not end there:  *)
(* it goes on with the next cursor.                                        *)
C18_FailedListingSkipsPage ==
    \A c \in hist.listed :
       (/\ ~self.one_page_only
        /\ \A l \in hist.lists : l.cursor = c => l.uuids = <<>>)
       => /\ \/ Holds(self.failed_observations, Url("listing", c[2], c[1]))
             \/ Holds(self.failed_observations, FailedPage(c[2]))
          /\ \A d \in hist.downloads : d.cursor # c
          /\ c \notin hist.completed
          /\ ~(/\ proc.pc = "exited"
               /\ proc.exit_code # 0
               /\ ~hist.interrupted
               /\ Cursor = c)

(* C19: a run interrupted while the observation of index i of page p was   *)
(* being downloaded, then a run started with resume page p and resume      *)
(* index i on the same checkpoint record: if that run ends with no failure *)
(* and no interrupt, it has attempted the download of the observation at   *)
(* index i of page p and has marked p complete.                            *)
C19_ResumedRunCompletesPage ==
    \A x \in hist.resumable :
       (/\ hist.cfg.resume_from_page = x.page
        /\ hist.cfg.resume_from_uuid_index = x.index
        /\ RunOver
        /\ self.is_large_results <=> x.year # NoYear
        /\ self.is_large_results => hist.first_year = x.year
        /\ self.failed_observations = <<>>
        /\ self.failed_downloads = <<>>)
       => /\ <<x.year, x.page>> \in hist.completed
          /\ \E d \in hist.downloads :
                d.cursor = <<x.year, x.page>> /\ d.n = x.index

----------------------------------------------------------------------------
(* Properties of two runs at the same time (SpecWriters) *)

(* C23: when two runs on the same taxon interleave their reads and writes  *)
(* of the checkpoint record, an entry persisted as complete is never       *)
(* persisted afterwards as pending or in-progress.                         *)
C23_CompleteNeverRegresses ==
    [][\A e \in Entries(progress.obj), f \in Entries(progress'.obj) :
          (e.year = f.year /\ e.page = f.page /\ e.status = "complete")
             => f.status = "complete"]_vars

----------------------------------------------------------------------------
(* Properties of the bucket shared with the script (SpecShared) *)

(* C26: when the key of a photo is found in the bucket already, only that  *)
(* photo's upload is skipped: every later photo of the observation is      *)
(* requested, and stored if its requests succeed.                          *)
C26_OnlyThatUploadSkipped ==
    \A f \in hist.fetches :
       \A k \in f.present :
          \A j \in (k + 1)..Len(f.photos) :
             /\ j \in f.tried
             /\ f.outs[j] = "ok" => Fname(f.photos[j]) \in DOMAIN store

----------------------------------------------------------------------------
(* Properties of the standalone script (SpecScript) *)

(* C28: in the standalone script a failed observation fetch puts the       *)
(* observation in failed_observations and the run goes on with the next    *)
(* observation; a failed photo download puts the photo URL in              *)
(* failed_downloads and the run goes on with the next photo: neither ends  *)
(* the run.                                                                *)
C28_ScriptFailuresRecorded ==
    \A f \in hist.fetches :
       /\ f.r = "http_error" =>
             /\ ~f.raised
             /\ Holds(self.failed_observations, Uuid(f.uuid))
       /\ f.r = "ok" =>
             \A k \in f.tried :
                f.outs[k] = "http_error" =>
                   /\ ~f.raised
                   /\ Holds(self.failed_downloads, PhotoUrl(f.photos[k]))
                   /\ \A j \in (k + 1)..Len(f.photos) : j \in f.tried

====
